---- MODULE Spec2Model ----
(***************************************************************************)
(* pihole-log-explorer: the log-line parser (UnmarshalLogLine), the filter *)
(* engine (FilterLogLine, TextSearchLogLine) and the tview handlers of     *)
(* main() that load the log, reload it, search, filter and select rows.    *)
(*                                                                         *)
(* A Go string is modelled as a sequence of one-character strings, so that *)
(* tokenising, bracket escaping and substring search are computed on the   *)
(* characters as the library functions compute them.                      *)
(***************************************************************************)
EXTENDS Integers, Sequences, FiniteSets, TLC

VARIABLES
    file,            \* the lines of /var/log/pihole.log that the last TailFile delivered
    pc,              \* "start" before the initial load, "ui" inside app.Run, "crashed" after a panic
    panic,           \* the panic that ended the process, NoPanic while it runs
    logLines,        \* main's logLines: the record sequence
    rows,            \* main's rows
    table,           \* the cell texts of the table: table[r] is the cell of row r, row 0 has none
    filterIndicator, \* the text of filterIndicator
    filterField,     \* the text of filterField
    root,            \* the root primitive of the application: "flex" or "helpModal"
    focus,           \* the primitive that has the focus
    selectable,      \* table.SetSelectable(true, true) has been called
    selectedLine,    \* <<>>, or the record the callbacks of the detail pane have captured
    detailPane,      \* the items of the detail pane, in order
    filterCall       \* <<>>, or the FilterFunc and the result of the call
                     \* FilterLogLine(logLines, f) of the handler that ran last

vars == <<file, pc, panic, logLines, rows, table, filterIndicator, filterField,
          root, focus, selectable, selectedLine, detailPane, filterCall>>

(***************************************************************************)
(* Strings                                                                 *)
(***************************************************************************)

\* unicode.IsSpace, restricted to the two white space characters of the inputs
WhiteSpace == {" ", "\t"}

RECURSIVE FieldsFrom(_, _, _, _)
FieldsFrom(s, i, cur, acc) ==
    IF i > Len(s)
    THEN IF cur = <<>> THEN acc ELSE Append(acc, cur)
    ELSE IF s[i] \in WhiteSpace
         THEN FieldsFrom(s, i + 1, <<>>, IF cur = <<>> THEN acc ELSE Append(acc, cur))
         ELSE FieldsFrom(s, i + 1, Append(cur, s[i]), acc)

\* strings.Fields: the maximal runs of non-space characters, in order
Fields(s) == FieldsFrom(s, 1, <<>>, <<>>)

HasPrefixAt(s, i, p) ==
    /\ i >= 1
    /\ i + Len(p) - 1 <= Len(s)
    /\ SubSeq(s, i, i + Len(p) - 1) = p

RECURSIVE ReplaceFrom(_, _, _, _)
ReplaceFrom(s, i, old, new) ==
    IF i > Len(s) THEN <<>>
    ELSE IF HasPrefixAt(s, i, old)
         THEN new \o ReplaceFrom(s, i + Len(old), old, new)
         ELSE <<s[i]>> \o ReplaceFrom(s, i + 1, old, new)

RECURSIVE ReplaceFirst(_, _, _, _)
ReplaceFirst(s, i, old, new) ==
    IF i > Len(s) THEN <<>>
    ELSE IF HasPrefixAt(s, i, old)
         THEN new \o SubSeq(s, i + Len(old), Len(s))
         ELSE <<s[i]>> \o ReplaceFirst(s, i + 1, old, new)

\* faulty variant: strings.Replace with n = 1, only the first occurrence is replaced
ReplaceAll_first(s, old, new) == ReplaceFirst(s, 1, old, new)

\* strings.ReplaceAll for a non-empty old: leftmost non-overlapping occurrences
ReplaceAll(s, old, new) == ReplaceFrom(s, 1, old, new)

\* strings.Contains
Contains(s, substr) ==
    \E i \in 1..(Len(s) - Len(substr) + 1) : HasPrefixAt(s, i, substr)

(***************************************************************************)
(* time.Parse(time.Stamp, ...) and Time.Format(time.Stamp)                 *)
(* time.Stamp is "Jan _2 15:04:05".                                        *)
(***************************************************************************)

shortMonthNames ==
    << <<"J", "a", "n">>, <<"F", "e", "b">>, <<"M", "a", "r">>, <<"A", "p", "r">>, <<"M", "a", "y">>, <<"J", "u", "n">>,
       <<"J", "u", "l">>, <<"A", "u", "g">>, <<"S", "e", "p">>, <<"O", "c", "t">>, <<"N", "o", "v">>, <<"D", "e", "c">> >>

\* days of each month in year 0, which time.Parse assumes and which is a leap year
daysIn == <<31, 29, 31, 30, 31, 30, 31, 31, 30, 31, 30, 31>>

Digits == <<"0", "1", "2", "3", "4", "5", "6", "7", "8", "9">>

isDigit(s, i) == i >= 1 /\ i <= Len(s) /\ \E d \in 1..10 : Digits[d] = s[i]

DigitVal(c) == (CHOOSE d \in 1..10 : Digits[d] = c) - 1

\* getnum: one or two digits at s[i] (exactly two when fixed);
\* n = -1 is errBad, next is the index after the number
getnum(s, i, fixed) ==
    IF ~isDigit(s, i) THEN [n |-> -1, next |-> i]
    ELSE IF ~isDigit(s, i + 1)
         THEN IF fixed THEN [n |-> -1, next |-> i]
              ELSE [n |-> DigitVal(s[i]), next |-> i + 1]
         ELSE [n |-> 10 * DigitVal(s[i]) + DigitVal(s[i + 1]), next |-> i + 2]

RECURSIVE digitsEnd(_, _)
digitsEnd(s, i) == IF isDigit(s, i) THEN digitsEnd(s, i + 1) ELSE i

RECURSIVE spacesEnd(_, _)
spacesEnd(s, i) == IF i <= Len(s) /\ s[i] = " " THEN spacesEnd(s, i + 1) ELSE i

timeError == [err |-> TRUE]

Upper == <<"A", "B", "C", "D", "E", "F", "G", "H", "I", "J", "K", "L", "M", "N", "O", "P", "Q", "R", "S", "T", "U", "V", "W", "X", "Y", "Z">>

Lower == <<"a", "b", "c", "d", "e", "f", "g", "h", "i", "j", "k", "l", "m", "n", "o", "p", "q", "r", "s", "t", "u", "v", "w", "x", "y", "z">>

\* lookup matches the month name without regard to the case of ASCII letters
fold(c) == IF \E k \in 1..26 : Upper[k] = c
           THEN Lower[CHOOSE k \in 1..26 : Upper[k] = c]
           ELSE c

\* time.Stamp cut into the chunks Parse walks through
StampLayout == <<"Jan", " ", "_2", " ", "15", ":", "04", ":", "05">>

\* the months whose short name value carries at index i
lookup(value, i) ==
    {m \in 1..12 : /\ i + 2 <= Len(value)
                   /\ [k \in 1..3 |-> fold(value[i + k - 1])]
                      = [k \in 1..3 |-> fold(shortMonthNames[m][k])]}

noMatch == [n |-> -1, next |-> 0]

\* one chunk of the layout matched against value at index i: the number read and
\* the index after it, n = -1 when value does not match or is out of range
parseChunk(std, value, i) ==
    CASE std = "Jan" ->
           IF lookup(value, i) = {} THEN noMatch
           ELSE [n |-> CHOOSE m \in lookup(value, i) : TRUE, next |-> i + 3]
      [] std = " " ->
           \* a space of the layout matches the end of value or a run of spaces
           IF i > Len(value) THEN [n |-> 0, next |-> i]
           ELSE IF value[i] # " " THEN noMatch
           ELSE [n |-> 0, next |-> spacesEnd(value, i)]
      [] std = ":" ->
           IF HasPrefixAt(value, i, <<":">>) THEN [n |-> 0, next |-> i + 1] ELSE noMatch
      [] std = "_2" ->
           getnum(value, IF HasPrefixAt(value, i, <<" ">>) THEN i + 1 ELSE i, FALSE)
      [] std = "15" ->
           IF getnum(value, i, FALSE).n >= 24 THEN noMatch ELSE getnum(value, i, FALSE)
      [] std \in {"04", "05"} ->
           IF getnum(value, i, TRUE).n >= 60 THEN noMatch ELSE getnum(value, i, TRUE)

\* after the last chunk: fractional seconds are accepted although the layout has
\* none, any other text left is an error, and the day must exist in the month
parseEnd(value, i, t) ==
    LET frac == /\ i + 1 <= Len(value)
                /\ value[i] \in {".", ","}
                /\ isDigit(value, i + 1)
        end  == IF frac THEN digitsEnd(value, i + 1) ELSE i
    IN
    IF end <= Len(value) \/ t["_2"] < 1 \/ t["_2"] > daysIn[t["Jan"]]
    THEN timeError
    ELSE [err |-> FALSE, month |-> t["Jan"], day |-> t["_2"],
          hour |-> t["15"], min |-> t["04"], sec |-> t["05"],
          frac |-> IF frac THEN SubSeq(value, i + 1, end - 1) ELSE <<>>]

RECURSIVE parseFrom(_, _, _, _)
parseFrom(value, i, k, t) ==
    IF k > Len(StampLayout) THEN parseEnd(value, i, t)
    ELSE LET r == parseChunk(StampLayout[k], value, i) IN
         IF r.n < 0 THEN timeError
         ELSE parseFrom(value, r.next, k + 1, [t EXCEPT ![StampLayout[k]] = r.n])

\* time.Parse(time.Stamp, value): [err |-> TRUE] or the fields of the time
TimeParse(value) ==
    parseFrom(value, 1, 1, [std \in {"Jan", " ", "_2", "15", ":", "04", "05"} |-> 0])

two(n) == <<Digits[(n \div 10) + 1], Digits[(n % 10) + 1]>>

\* Time.Format(time.Stamp): the day is padded with a space, the rest with zeros
TimeFormat(t) ==
    shortMonthNames[t.month] \o <<" ">>
    \o (IF t.day < 10 THEN <<" ", Digits[t.day + 1]>> ELSE two(t.day))
    \o <<" ">> \o two(t.hour) \o <<":">> \o two(t.min) \o <<":">> \o two(t.sec)

(***************************************************************************)
(* LogLine.go: the record, UnmarshalLogLine, FilterLogLine                 *)
(***************************************************************************)

\* Interpreted log line types; the closing bracket is written "[]" for tview
Blocked   == <<"g", "r", "a", "v", "i", "t", "y", " ", "b", "l", "o", "c", "k", "e", "d">>
Read      == <<"r", "e", "a", "d">>
AAAA      == <<"q", "u", "e", "r", "y", "[", "A", "A", "A", "A", "[", "]">>
A         == <<"q", "u", "e", "r", "y", "[", "A", "[", "]">>
Ptr       == <<"q", "u", "e", "r", "y", "[", "P", "T", "R", "[", "]">>
Cached    == <<"c", "a", "c", "h", "e", "d">>
Forwarded == <<"f", "o", "r", "w", "a", "r", "d", "e", "d">>
Reply     == <<"r", "e", "p", "l", "y">>
Unknown   == <<"u", "n", "k", "n", "o", "w", "n">>

LogLine(timestamp, lineType, result, domain, requester, upstream, line) ==
    [Timestamp |-> timestamp, LineType |-> lineType, Result |-> result,
     Domain |-> domain, Requester |-> requester, Upstream |-> upstream,
     Line |-> line]

\* faulty variant: the dispatch token is matched without regard to case
LineTypeOf_anyCase(token) ==
    CASE [k \in 1..Len(token) |-> fold(token[k])] = <<"g", "r", "a", "v", "i", "t", "y">>     -> Blocked
      [] [k \in 1..Len(token) |-> fold(token[k])] = <<"r", "e", "a", "d">>        -> Read
      [] [k \in 1..Len(token) |-> fold(token[k])] = <<"q", "u", "e", "r", "y", "[", "a", "a", "a", "a", "]">> -> AAAA
      [] [k \in 1..Len(token) |-> fold(token[k])] = <<"q", "u", "e", "r", "y", "[", "a", "]">>    -> A
      [] [k \in 1..Len(token) |-> fold(token[k])] = <<"q", "u", "e", "r", "y", "[", "p", "t", "r", "]">>  -> Ptr
      [] [k \in 1..Len(token) |-> fold(token[k])] = <<"c", "a", "c", "h", "e", "d">>      -> Cached
      [] [k \in 1..Len(token) |-> fold(token[k])] = <<"f", "o", "r", "w", "a", "r", "d", "e", "d">>   -> Forwarded
      [] [k \in 1..Len(token) |-> fold(token[k])] = <<"r", "e", "p", "l", "y">>       -> Reply
      [] OTHER                                                      -> Unknown

\* the switch on tokens[4]
LineTypeOf(token) ==
    CASE token = <<"g", "r", "a", "v", "i", "t", "y">>     -> Blocked
      [] token = <<"r", "e", "a", "d">>        -> Read
      [] token = <<"q", "u", "e", "r", "y", "[", "A", "A", "A", "A", "]">> -> AAAA
      [] token = <<"q", "u", "e", "r", "y", "[", "A", "]">>    -> A
      [] token = <<"q", "u", "e", "r", "y", "[", "P", "T", "R", "]">>  -> Ptr
      [] token = <<"c", "a", "c", "h", "e", "d">>      -> Cached
      [] token = <<"f", "o", "r", "w", "a", "r", "d", "e", "d">>   -> Forwarded
      [] token = <<"r", "e", "p", "l", "y">>       -> Reply
      [] OTHER                  -> Unknown

\* faulty variant: the shift of the blocked lines by one token is forgotten
ResultIndex_noShift(lineType) ==
    IF lineType = Cached \/ lineType = Reply \/ lineType = Blocked THEN 7 ELSE -1

\* the token index each field is read from, -1 when the field is not read
ResultIndex(lineType) ==
    IF lineType = Cached \/ lineType = Reply THEN 7
    ELSE IF lineType = Blocked THEN 8
    ELSE -1

DomainIndex(lineType) ==
    IF lineType = Blocked THEN 6
    ELSE IF lineType \in {Cached, Reply, AAAA, A, Ptr, Forwarded} THEN 5
    ELSE -1

RequesterIndex(lineType) ==
    IF lineType \in {A, AAAA, Ptr} THEN 7 ELSE -1

UpstreamIndex(lineType) ==
    IF lineType = Forwarded THEN 7 ELSE -1

IndexPanic == "index out of range"

TimePanic == "parsing time"

\* tokens[i] of the Go code (zero-based); "" for a field that is not read
TokenOr(tokens, i) == IF i < 0 THEN <<>> ELSE tokens[i + 1]

\* UnmarshalLogLine(line): [panic |-> "none", ll |-> the record], or the panic
\* that the first failing statement raises
UnmarshalLogLine(line) ==
    LET tokens == Fields(line) IN
    IF Len(tokens) < 3 THEN [panic |-> IndexPanic]
    ELSE
    LET timeStr   == tokens[1] \o <<" ">> \o tokens[2] \o <<" ">> \o tokens[3]
        timestamp == TimeParse(timeStr)
    IN
    IF timestamp.err THEN [panic |-> TimePanic]
    ELSE IF Len(tokens) < 5 THEN [panic |-> IndexPanic]
    ELSE
    LET lineType == LineTypeOf(tokens[5])
        reads    == {ResultIndex(lineType), DomainIndex(lineType),
                     RequesterIndex(lineType), UpstreamIndex(lineType)}
    IN
    IF \E i \in reads : i >= Len(tokens) THEN [panic |-> IndexPanic]
    ELSE [panic |-> "none",
          ll |-> LogLine(timestamp, lineType,
                         TokenOr(tokens, ResultIndex(lineType)),
                         TokenOr(tokens, DomainIndex(lineType)),
                         TokenOr(tokens, RequesterIndex(lineType)),
                         TokenOr(tokens, UpstreamIndex(lineType)),
                         ReplaceAll(line, <<"]">>, <<"[", "]">>))]

\* a FilterFunc built by a handler: the text search of TextSearchLogLine(s), or
\* the comparison of one field with the selected record's value
TextSearchLogLine(s) == [kind |-> "text", s |-> s]

FieldEquals(field, value) == [kind |-> "field", field |-> field, value |-> value]

\* faulty variant: a field matches when the value is a prefix of it
Apply_prefix(f, ll) ==
    IF f.kind = "text" THEN Contains(ll.Line, f.s)
    ELSE HasPrefixAt(ll[f.field], 1, f.value)

\* f(ll) for a FilterFunc f
Apply(f, ll) ==
    IF f.kind = "text" THEN Contains(ll.Line, f.s)
    ELSE ll[f.field] = f.value

RECURSIVE FilterFrom(_, _, _, _)
FilterFrom(lines, i, f, out) ==
    IF i > Len(lines) THEN out
    ELSE FilterFrom(lines, i + 1, f,
                    IF Apply(f, lines[i]) THEN Append(out, lines[i]) ELSE out)

RECURSIVE PrependFrom(_, _, _, _)
PrependFrom(lines, i, f, out) ==
    IF i > Len(lines) THEN out
    ELSE PrependFrom(lines, i + 1, f,
                     IF Apply(f, lines[i]) THEN <<lines[i]>> \o out ELSE out)

\* faulty variant: matches are put in front of the result instead of appended
FilterLogLine_prepend(lines, f) == PrependFrom(lines, 1, f, <<>>)

\* faulty variant: the loop starts at the second record
FilterLogLine_skipFirst(lines, f) == FilterFrom(lines, 2, f, <<>>)

\* FilterLogLine(lines, f): the loop appends lines[i] when f(lines[i])
FilterLogLine(lines, f) == FilterFrom(lines, 1, f, <<>>)

(***************************************************************************)
(* main(): loading, the table and the handlers                             *)
(***************************************************************************)

\* setTable: after Clear, the cell of row r (1..rows) is logLines[rows-r].Line
setTable(lines) ==
    LET n == Len(lines) IN [r \in 1..n |-> lines[(n - r) + 1].Line]

None == <<"N", "o", "n", "e">>

\* the items the selected-row handler adds to the detail pane for a record
DetailItems(ll) ==
    <<[field |-> "Timestamp", text |-> <<"T", "i", "m", "e", "s", "t", "a", "m", "p", ":", " ">> \o TimeFormat(ll.Timestamp)],
      [field |-> "LineType",  text |-> <<"E", "n", "t", "r", "y", " ", "t", "y", "p", "e", ":", " ">> \o ll.LineType]>>
    \o (IF ll.Result # <<>>
        THEN <<[field |-> "Result", text |-> <<"R", "e", "s", "u", "l", "t", ":", " ">> \o ll.Result]>> ELSE <<>>)
    \o (IF ll.Domain # <<>>
        THEN <<[field |-> "Domain", text |-> <<"D", "o", "m", "a", "i", "n", ":", " ">> \o ll.Domain]>> ELSE <<>>)
    \o (IF ll.Requester # <<>>
        THEN <<[field |-> "Requester", text |-> <<"R", "e", "q", "u", "e", "s", "t", "e", "r", ":", " ">> \o ll.Requester]>> ELSE <<>>)
    \o (IF ll.Upstream # <<>>
        THEN <<[field |-> "Upstream", text |-> <<"U", "p", "s", "t", "r", "e", "a", "m", ":", " ">> \o ll.Upstream]>> ELSE <<>>)

\* the text an item's callback gives the filter indicator
IndicatorText(field, ll) ==
    CASE field = "LineType"  -> <<"L", "i", "n", "e", "T", "y", "p", "e", ":", " ">> \o ReplaceAll(ll.LineType, <<"[", "]">>, <<"]">>)
      [] field = "Result"    -> <<"R", "e", "s", "u", "l", "t", ":", " ">> \o ll.Result
      [] field = "Domain"    -> <<"D", "o", "m", "a", "i", "n", ":", " ">> \o ll.Domain
      [] field = "Requester" -> <<"R", "e", "q", "u", "e", "s", "t", "e", "r", ":", " ">> \o ll.Requester
      [] field = "Upstream"  -> <<"U", "p", "s", "t", "r", "e", "a", "m", ":", " ">> \o ll.Upstream

(***************************************************************************)
(* Inputs                                                                  *)
(***************************************************************************)

\* the most lines the log file holds
MaxLines == 2

\* the most tokens of a line given to the parser alone
MaxTokens == 9

\* log lines of the file the interface is explored with: four well-formed
\* kinds, a reply cut short and a line whose month is not a month
UILines ==
    { <<"J", "a", "n", " ", " ", "2", " ", "0", "3", ":", "0", "4", ":", "0", "5", " ", "d", "[", "1", "]", ":", " ", "q", "u", "e", "r", "y", "[", "A", "]", " ", "a", ".", "b", " ", "f", "r", "o", "m", " ", "1", ".", "1">>,
      <<"J", "a", "n", " ", " ", "2", " ", "0", "3", ":", "0", "4", ":", "0", "6", " ", "d", "[", "1", "]", ":", " ", "c", "a", "c", "h", "e", "d", " ", "a", ".", "b", " ", "i", "s", " ", "0", ".", "0">>,
      <<"J", "a", "n", " ", " ", "2", " ", "0", "3", ":", "0", "4", ":", "0", "7", " ", "d", "[", "1", "]", ":", " ", "f", "o", "r", "w", "a", "r", "d", "e", "d", " ", "a", ".", "b", "c", " ", "t", "o", " ", "8", ".", "8">>,
      <<"J", "a", "n", " ", " ", "2", " ", "0", "3", ":", "0", "4", ":", "0", "8", " ", "d", "[", "1", "]", ":", " ", "g", "r", "a", "v", "i", "t", "y", " ", "b", "l", "o", "c", "k", "e", "d", " ", "c", ".", "d", " ", "i", "s", " ", "0", ".", "0">>,
      <<"J", "a", "n", " ", " ", "2", " ", "0", "3", ":", "0", "4", ":", "0", "9", " ", "d", "[", "1", "]", ":", " ", "r", "e", "p", "l", "y", " ", "a", ".", "b">>,
      <<"J", "x", "n", " ", " ", "2", " ", "0", "3", ":", "0", "4", ":", "1", "0", " ", "d", "[", "1", "]", ":", " ", "r", "e", "a", "d", " ", "/", "e", "t", "c", "/", "h", "o", "s", "t", "s">> }

RECURSIVE SeqsUpTo(_, _)
SeqsUpTo(S, n) ==
    IF n = 0 THEN {<<>>}
    ELSE LET shorter == SeqsUpTo(S, n - 1) IN
         shorter \cup {Append(q, x) : q \in shorter, x \in S}

Files == SeqsUpTo(UILines, MaxLines)

\* what the operator types into the filter field
SearchKeys == { <<"c", "a", "c", "h", "e", "d">>, <<"A", "]">>, <<"0", ".", "0">> }

\* the lines given to the parser alone are cut from these tokens: a time stamp,
\* the process tag, the token the kind is read from, and four more tokens, all
\* different, so that a field read from the wrong index shows
Stamps ==
    { <<<<"J", "a", "n">>, <<"2">>, <<"0", "3", ":", "0", "4", ":", "0", "5">>>>,      \* valid
      <<<<"d", "e", "c">>, <<"3", "1">>, <<"3", ":", "5", "9", ":", "5", "9", ".", "2", "5">>>>,   \* valid: case, one-digit hour, fraction
      <<<<"F", "e", "b">>, <<"3", "0">>, <<"0", "3", ":", "0", "4", ":", "0", "5">>>>,     \* no such day
      <<<<"J", "a", "n">>, <<"2">>, <<"0", "3", ":", "4", ":", "0", "5">>>> }      \* one-digit minute

DispatchTokens ==
    { <<"g", "r", "a", "v", "i", "t", "y">>, <<"r", "e", "a", "d">>, <<"q", "u", "e", "r", "y", "[", "A", "A", "A", "A", "]">>, <<"q", "u", "e", "r", "y", "[", "A", "]">>, <<"q", "u", "e", "r", "y", "[", "P", "T", "R", "]">>, <<"c", "a", "c", "h", "e", "d">>,
      <<"f", "o", "r", "w", "a", "r", "d", "e", "d">>, <<"r", "e", "p", "l", "y">>, <<"R", "e", "p", "l", "y">>, <<"q", "u", "e", "r", "y", "[", "M", "X", "]">>, <<"x", "[", "]", "]">> }

Separators == { <<" ">>, <<" ", "\t">> }

TokensOf(stamp, dispatch) ==
    stamp \o <<<<"d", "[", "1", "]", ":">>, dispatch, <<"a", ".", "b">>, <<"c", ".", "d">>, <<"1", ".", "1">>, <<"0", ".", "0">>>>

\* the first n tokens, the tokens past the ninth being "x"
Cut(tokens, n) == [k \in 1..n |-> IF k <= Len(tokens) THEN tokens[k] ELSE <<"x">>]

RECURSIVE Join(_, _)
Join(tokens, sep) ==
    IF tokens = <<>> THEN <<>>
    ELSE IF Len(tokens) = 1 THEN tokens[1]
    ELSE tokens[1] \o sep \o Join(Tail(tokens), sep)

ParseLines ==
    { Join(Cut(TokensOf(stamp, dispatch), n), sep) :
        stamp \in Stamps, dispatch \in DispatchTokens, n \in 0..MaxTokens, sep \in Separators }

\* UnmarshalLogLine on each input line, computed once
unmarshalled == [l \in UILines \cup ParseLines |-> UnmarshalLogLine(l)]

RECURSIVE LoadFrom(_, _, _)
LoadFrom(lines, i, acc) ==
    IF i > Len(lines) THEN [panic |-> "none", logLines |-> acc]
    ELSE LET u == unmarshalled[lines[i]] IN
         IF u.panic # "none" THEN [panic |-> u.panic, logLines |-> acc]
         ELSE LoadFrom(lines, i + 1, Append(acc, u.ll))

\* for line := range tf.Lines { logLines = append(logLines, UnmarshalLogLine(line.Text)) }
\* a panic of UnmarshalLogLine ends the loop and the process
LoadLines(lines) == LoadFrom(lines, 1, <<>>)

Primitives == {"table", "detailPane", "filterField", "helpModal"}

(***************************************************************************)
(* The state machine                                                       *)
(***************************************************************************)

NoPanic == [what |-> "none", in |-> "none"]

InitUI ==
    /\ pc = "start"
    /\ panic = NoPanic
    /\ logLines = <<>>
    /\ rows = 0
    /\ table = <<>>
    /\ filterIndicator = None
    /\ filterField = <<>>
    /\ root = "flex"
    /\ focus = "table"
    /\ selectable = FALSE
    /\ selectedLine = <<>>
    /\ detailPane = <<>>
    /\ filterCall = <<>>

Init ==
    /\ file \in Files
    /\ InitUI

\* the loop over tf.Lines followed by rows = len(logLines) and setTable
ReadLog(lines) ==
    LET r == LoadLines(lines) IN
    /\ logLines' = r.logLines
    /\ IF r.panic # "none"
       THEN /\ pc' = "crashed"
            /\ panic' = [what |-> r.panic, in |-> "UnmarshalLogLine"]
            /\ UNCHANGED <<rows, table>>
       ELSE /\ pc' = "ui"
            /\ panic' = panic
            /\ rows' = Len(r.logLines)
            /\ table' = setTable(r.logLines)

\* main, from tail.TailFile to app.Run
Load ==
    /\ pc = "start"
    /\ ReadLog(file)
    /\ UNCHANGED <<file, filterIndicator, filterField, root, focus, selectable,
                   selectedLine, detailPane, filterCall>>

\* what the log file can hold at the next TailFile: the same lines, one more
\* line, or nothing after the log was flushed
NextFiles(f) ==
    {f, <<>>} \cup (IF Len(f) < MaxLines THEN {Append(f, l) : l \in UILines} ELSE {})

\* SetInputCapture, 'r'
Reload ==
    /\ pc = "ui"
    /\ focus # "filterField"
    /\ \E f \in NextFiles(file) :
          /\ file' = f
          /\ ReadLog(f)
    /\ filterCall' = <<>>
    /\ UNCHANGED <<filterIndicator, filterField, root, focus, selectable,
                   selectedLine, detailPane>>

\* SetInputCapture, 'f'
FocusFilterField ==
    /\ pc = "ui"
    /\ focus # "filterField"
    /\ focus' = "filterField"
    /\ filterCall' = <<>>
    /\ UNCHANGED <<file, pc, panic, logLines, rows, table, filterIndicator, filterField,
                   root, selectable, selectedLine, detailPane>>

\* SetInputCapture, 'h': SetRoot gives the new root the focus
Help ==
    /\ pc = "ui"
    /\ focus # "filterField"
    /\ root' = "helpModal"
    /\ focus' = "helpModal"
    /\ filterCall' = <<>>
    /\ UNCHANGED <<file, pc, panic, logLines, rows, table, filterIndicator, filterField,
                   selectable, selectedLine, detailPane>>

\* helpModal's done function: the flex passes the focus to the table
HelpClose ==
    /\ pc = "ui"
    /\ root = "helpModal"
    /\ focus = "helpModal"
    /\ root' = "flex"
    /\ focus' = "table"
    /\ filterCall' = <<>>
    /\ UNCHANGED <<file, pc, panic, logLines, rows, table, filterIndicator, filterField,
                   selectable, selectedLine, detailPane>>

\* EnableMouse(true): a click on a primitive of the flex gives it the focus
MouseClick(p) ==
    /\ pc = "ui"
    /\ root = "flex"
    /\ p \in {"table", "detailPane", "filterField"}
    /\ focus # p
    /\ focus' = p
    /\ filterCall' = <<>>
    /\ UNCHANGED <<file, pc, panic, logLines, rows, table, filterIndicator, filterField,
                   root, selectable, selectedLine, detailPane>>

\* the operator edits the text of the filter field
TypeFilterField(s) ==
    /\ pc = "ui"
    /\ focus = "filterField"
    /\ filterField # s
    /\ filterField' = s
    /\ filterCall' = <<>>
    /\ UNCHANGED <<file, pc, panic, logLines, rows, table, filterIndicator,
                   root, focus, selectable, selectedLine, detailPane>>

\* setTable(table, logLines); filterIndicator.SetText("None")
ClearFilter ==
    /\ table' = setTable(logLines)
    /\ filterIndicator' = None
    /\ filterCall' = <<>>

\* filtered := FilterLogLine(logLines, f); setTable(table, filtered)
ShowFiltered(f) ==
    LET out == FilterLogLine(logLines, f) IN
    /\ filterCall' = <<[f |-> f, out |-> out]>>
    /\ table' = setTable(out)

\* filterField.SetDoneFunc
FilterFieldDone(key) ==
    /\ pc = "ui"
    /\ focus = "filterField"
    /\ IF key = "Escape"
       THEN /\ ClearFilter
            /\ filterField' = <<>>
            /\ focus' = "table"
       ELSE /\ filterIndicator' = <<"T", "e", "x", "t", " ", "s", "e", "a", "r", "c", "h", ":", " ">> \o filterField
            /\ ShowFiltered(TextSearchLogLine(filterField))
            /\ UNCHANGED <<filterField, focus>>
    /\ UNCHANGED <<file, pc, panic, logLines, rows, root, selectable,
                   selectedLine, detailPane>>

\* table.SetDoneFunc; Enter reaches it only while the table is not selectable
TableDone(key) ==
    /\ pc = "ui"
    /\ focus = "table"
    /\ IF key = "Escape"
       THEN /\ ClearFilter
            /\ filterField' = <<>>
            /\ UNCHANGED selectable
       ELSE /\ ~selectable
            /\ selectable' = TRUE
            /\ filterCall' = <<>>
            /\ UNCHANGED <<table, filterIndicator, filterField>>
    /\ UNCHANGED <<file, pc, panic, logLines, rows, root, focus,
                   selectedLine, detailPane>>

\* table.SetSelectedFunc(row, 0): selectedLine := logLines[rows-row]
TableSelected(row) ==
    /\ pc = "ui"
    /\ focus = "table"
    /\ selectable
    /\ row \in 0..Len(table)
    /\ filterCall' = <<>>
    /\ IF rows - row < 0 \/ rows - row >= Len(logLines)
       THEN /\ pc' = "crashed"
            /\ panic' = [what |-> IndexPanic, in |-> "SetSelectedFunc"]
            /\ detailPane' = <<>>
            /\ UNCHANGED <<selectedLine, focus>>
       ELSE /\ selectedLine' = <<logLines[(rows - row) + 1]>>
            /\ detailPane' = DetailItems(logLines[(rows - row) + 1])
            /\ focus' = "detailPane"
            /\ UNCHANGED <<pc, panic>>
    /\ UNCHANGED <<file, logLines, rows, table, filterIndicator, filterField,
                   root, selectable>>

\* detailPane.SetDoneFunc, installed by the first selection
DetailDone ==
    /\ pc = "ui"
    /\ focus = "detailPane"
    /\ selectedLine # <<>>
    /\ detailPane' = <<>>
    /\ ClearFilter
    /\ focus' = "table"
    /\ UNCHANGED <<file, pc, panic, logLines, rows, filterField, root, selectable,
                   selectedLine>>

\* the callback of item i of the detail pane
DetailItem(i) ==
    /\ pc = "ui"
    /\ focus = "detailPane"
    /\ i \in 1..Len(detailPane)
    /\ LET field == detailPane[i].field
           ll    == selectedLine[1]
       IN IF field = "Timestamp"
          THEN /\ filterCall' = <<>>
               /\ UNCHANGED <<table, filterIndicator>>
          ELSE /\ filterIndicator' = IndicatorText(field, ll)
               /\ ShowFiltered(FieldEquals(field, ll[field]))
    /\ UNCHANGED <<file, pc, panic, logLines, rows, filterField, root, focus,
                   selectable, selectedLine, detailPane>>

Keys == {"Escape", "Enter"}

Next ==
    \/ Load
    \/ Reload
    \/ FocusFilterField
    \/ Help
    \/ HelpClose
    \/ \E p \in Primitives : MouseClick(p)
    \/ \E s \in SearchKeys \cup {<<>>} : TypeFilterField(s)
    \/ \E key \in Keys : FilterFieldDone(key)
    \/ \E key \in Keys : TableDone(key)
    \/ \E row \in 0..MaxLines : TableSelected(row)
    \/ DetailDone
    \/ \E i \in 1..6 : DetailItem(i)

Spec == Init /\ [][Next]_vars

\* the parser alone: main loads a file of one line
InitParse ==
    /\ file \in {<<l>> : l \in ParseLines}
    /\ InitUI

NextParse == Load

SpecParse == InitParse /\ [][NextParse]_vars


(***************************************************************************)
(* Properties                                                              *)
(***************************************************************************)

Keywords ==
    { <<"g", "r", "a", "v", "i", "t", "y">>, <<"r", "e", "a", "d">>, <<"q", "u", "e", "r", "y", "[", "A", "A", "A", "A", "]">>, <<"q", "u", "e", "r", "y", "[", "A", "]">>, <<"q", "u", "e", "r", "y", "[", "P", "T", "R", "]">>, <<"c", "a", "c", "h", "e", "d">>,
      <<"f", "o", "r", "w", "a", "r", "d", "e", "d">>, <<"r", "e", "p", "l", "y">> }

QueryKeywords == { <<"q", "u", "e", "r", "y", "[", "A", "A", "A", "A", "]">>, <<"q", "u", "e", "r", "y", "[", "A", "]">>, <<"q", "u", "e", "r", "y", "[", "P", "T", "R", "]">> }

\* the number of tokens a line with this token at index 4 must have
TokensNeeded(dispatch) ==
    IF dispatch = <<"g", "r", "a", "v", "i", "t", "y">> THEN 9
    ELSE IF dispatch \in QueryKeywords \cup {<<"c", "a", "c", "h", "e", "d">>, <<"r", "e", "p", "l", "y">>, <<"f", "o", "r", "w", "a", "r", "d", "e", "d">>} THEN 8
    ELSE 5

StampOf(tokens) == tokens[1] \o <<" ">> \o tokens[2] \o <<" ">> \o tokens[3]

\* the first three tokens are there and do not parse as a time stamp
BadTimestamp(line) ==
    LET tokens == Fields(line) IN
    Len(tokens) >= 3 /\ TimeParse(StampOf(tokens)).err

\* the line ends before a token its kind reads
Truncated(line) ==
    LET tokens == Fields(line) IN
    \/ Len(tokens) < 3
    \/ /\ ~TimeParse(StampOf(tokens)).err
       /\ \/ Len(tokens) < 5
          \/ Len(tokens) < TokensNeeded(tokens[5])

\* a valid time stamp and every token the kind of the line reads
Complete(line) == ~BadTimestamp(line) /\ ~Truncated(line)

\* the records of the complete lines of f, in file order
RecordsOfComplete(f) ==
    LET complete == SelectSeq(f, Complete) IN
    [k \in 1..Len(complete) |-> unmarshalled[complete[k]].ll]

\* raw is line with every "]" written "[]" and every other character kept
IsBracketEscaped(raw, line) ==
    LET at(i) == i + Cardinality({j \in 1..(i - 1) : line[j] = "]"}) IN
    /\ Len(raw) = Len(line) + Cardinality({j \in 1..Len(line) : line[j] = "]"})
    /\ \A i \in 1..Len(line) :
          IF line[i] = "]"
          THEN raw[at(i)] = "[" /\ raw[at(i) + 1] = "]"
          ELSE raw[at(i)] = line[i]

\* C1: a line with a valid time stamp, a recognised keyword at index 4 and all
\* the tokens of its kind gives a record with exactly the fields of that kind:
\* result is token 7 (cached, reply) or token 8 (blocked), domain is token 6
\* (blocked) or token 5 (cached, reply, query-*, forwarded), requester is token 7
\* (query-*), upstream is token 7 (forwarded), and every other field is empty.
C1_FieldsOfKind ==
    pc # "start" =>
      \A i \in 1..Len(file) :
        (/\ \A j \in 1..i : Complete(file[j])
         /\ Fields(file[i])[5] \in Keywords)
        => LET tokens == Fields(file[i])
               kw     == tokens[5]
           IN
           /\ Len(logLines) >= i
           /\ logLines[i].Result =
                (IF kw \in {<<"c", "a", "c", "h", "e", "d">>, <<"r", "e", "p", "l", "y">>} THEN tokens[8]
                 ELSE IF kw = <<"g", "r", "a", "v", "i", "t", "y">> THEN tokens[9] ELSE <<>>)
           /\ logLines[i].Domain =
                (IF kw = <<"g", "r", "a", "v", "i", "t", "y">> THEN tokens[7]
                 ELSE IF kw \in QueryKeywords \cup {<<"c", "a", "c", "h", "e", "d">>, <<"r", "e", "p", "l", "y">>, <<"f", "o", "r", "w", "a", "r", "d", "e", "d">>}
                      THEN tokens[6] ELSE <<>>)
           /\ logLines[i].Requester = (IF kw \in QueryKeywords THEN tokens[8] ELSE <<>>)
           /\ logLines[i].Upstream = (IF kw = <<"f", "o", "r", "w", "a", "r", "d", "e", "d">> THEN tokens[8] ELSE <<>>)

\* a blocked line has been parsed: domain from token 6, result from token 8
C1_Witness ==
    /\ pc = "ui"
    /\ Len(logLines) = 1
    /\ logLines[1].LineType = Blocked
    /\ logLines[1].Domain = <<"c", ".", "d">>
    /\ logLines[1].Result = <<"0", ".", "0">>
    /\ logLines[1].Requester = <<>>

KindOfKeyword ==
    { <<<<"g", "r", "a", "v", "i", "t", "y">>, Blocked>>, <<<<"r", "e", "a", "d">>, Read>>, <<<<"q", "u", "e", "r", "y", "[", "A", "A", "A", "A", "]">>, AAAA>>,
      <<<<"q", "u", "e", "r", "y", "[", "A", "]">>, A>>, <<<<"q", "u", "e", "r", "y", "[", "P", "T", "R", "]">>, Ptr>>, <<<<"c", "a", "c", "h", "e", "d">>, Cached>>,
      <<<<"f", "o", "r", "w", "a", "r", "d", "e", "d">>, Forwarded>>, <<<<"r", "e", "p", "l", "y">>, Reply>> }

\* C2: the kind of a record is decided by the token at index 4 alone, by exact
\* match against the eight keywords; any other token gives kind unknown, empty
\* result, domain, requester and upstream, and the bracket-escaped line as raw
\* text. Every record has one of the nine kinds.
C2_KindFromDispatchToken ==
    \A i \in 1..Len(logLines) :
      LET kw == Fields(file[i])[5]
          ll == logLines[i]
      IN
      /\ ll.LineType \in {Blocked, Read, AAAA, A, Ptr, Cached, Forwarded, Reply, Unknown}
      /\ \A p \in KindOfKeyword : (kw = p[1]) <=> (ll.LineType = p[2])
      /\ (kw \notin Keywords) <=> (ll.LineType = Unknown)
      /\ kw \notin Keywords =>
           /\ ll.Result = <<>> /\ ll.Domain = <<>>
           /\ ll.Requester = <<>> /\ ll.Upstream = <<>>
           /\ IsBracketEscaped(ll.Line, file[i])

\* "Reply" is not the keyword "reply": the record is unknown
C2_Witness ==
    /\ pc = "ui"
    /\ Len(logLines) = 1
    /\ Fields(file[1])[5] = <<"R", "e", "p", "l", "y">>
    /\ Len(Fields(file[1])) >= 8
    /\ logLines[1].LineType = Unknown

\* C3: a line with fewer tokens than its kind reads is an error of that line
\* only: no token past the end is read and the other lines are still loaded.
C3_TruncatedLineIsPerLineError ==
    pc # "start" =>
      /\ ~(panic.in = "UnmarshalLogLine" /\ panic.what = IndexPanic)
      /\ (\A i \in 1..Len(file) : ~BadTimestamp(file[i]))
           => logLines = RecordsOfComplete(file)

\* C4: a line whose first three tokens are no time stamp is an error of that
\* line; with one such line in the file, the other lines are all parsed and
\* are the record sequence, in file order.
C4_BadTimestampKeepsOtherLines ==
    (/\ pc # "start"
     /\ Cardinality({i \in 1..Len(file) : BadTimestamp(file[i])}) = 1
     /\ \A i \in 1..Len(file) : ~Truncated(file[i]))
    => /\ panic.in # "UnmarshalLogLine"
       /\ logLines = RecordsOfComplete(file)

\* the indices of the records of lines that satisfy f
Matches(lines, f) == {i \in 1..Len(lines) : Apply(f, lines[i])}

\* out lists lines[i] for the i of idx, each once, by increasing i
IsSubsequenceAt(out, lines, idx) ==
    /\ Len(out) = Cardinality(idx)
    /\ \A i \in idx : out[Cardinality({j \in idx : j <= i})] = lines[i]

\* C5: FilterLogLine(R, P) is the subsequence of R of the records that satisfy
\* P: every one of them, none of the others, as often as in R, in R's order.
C5_FilterIsSubsequence ==
    filterCall # <<>> =>
      IsSubsequenceAt(filterCall[1].out, logLines, Matches(logLines, filterCall[1].f))

\* a filter kept the second of two records and dropped the first
C5_Witness ==
    /\ filterCall # <<>>
    /\ Len(logLines) = 2
    /\ filterCall[1].out = <<logLines[2]>>
    /\ logLines[1] # logLines[2]

\* C6: filtering is idempotent, FilterLogLine(FilterLogLine(R, P), P) is
\* FilterLogLine(R, P).
C6_FilterIdempotent ==
    filterCall # <<>> =>
      FilterLogLine(filterCall[1].out, filterCall[1].f) = filterCall[1].out

\* a filter kept two different records
C6_Witness ==
    /\ filterCall # <<>>
    /\ Len(filterCall[1].out) = 2
    /\ filterCall[1].out[1] # filterCall[1].out[2]

\* C7: the raw text of a record is the source line with each "]" written "[]"
\* and all other characters kept in order, so every "]" of the raw text has a
\* "[" right before it.
C7_RawIsBracketEscaped ==
    \A i \in 1..Len(logLines) :
      LET raw == logLines[i].Line IN
      /\ IsBracketEscaped(raw, file[i])
      /\ \A k \in 1..Len(raw) : raw[k] = "]" => k > 1 /\ raw[k - 1] = "["

\* a line with "[]]" in it has been parsed
C7_Witness ==
    /\ pc = "ui"
    /\ Len(logLines) = 1
    /\ Contains(file[1], <<"x", "[", "]", "]">>)
    /\ Contains(logLines[1].Line, <<"x", "[", "[", "]", "[", "]">>)

\* record i of the record sequence is the text of some row of the table
Shown(i) == \E r \in 1..Len(table) : table[r] = logLines[i].Line

\* C8: after a text search for s, the record of a loaded line is in the table
\* if and only if s is a substring of the line as it is in the log file.
C8_SearchFindsSubstringsOfFile ==
    (filterCall # <<>> /\ filterCall[1].f.kind = "text") =>
      \A i \in 1..Len(file) : Shown(i) <=> Contains(file[i], filterCall[1].f.s)

FilterFields == {"LineType", "Result", "Domain", "Requester", "Upstream"}

\* the table as the unfiltered table lays records out: row r is the r-th record
\* from the end
IsTableOf(t, lines) ==
    /\ Len(t) = Len(lines)
    /\ \A r \in 1..Len(t) : t[r] = lines[Len(lines) + 1 - r].Line

\* C9: after the operator picks the kind, result, domain, requester or upstream
\* item of the detail pane, the table holds exactly the records of the record
\* sequence whose value of that field equals the value of the selected record,
\* and keeps their order.
C9_FieldFilterIsEquality ==
    (filterCall # <<>> /\ filterCall[1].f.kind = "field") =>
      LET field == filterCall[1].f.field
          equal(ll) == ll[field] = selectedLine[1][field]
      IN
      /\ field \in FilterFields
      /\ IsTableOf(table, SelectSeq(logLines, equal))

\* the domain filter of a.b keeps a.b and drops a.bc
C9_Witness ==
    /\ filterCall # <<>>
    /\ filterCall[1].f = [kind |-> "field", field |-> "Domain", value |-> <<"a", ".", "b">>]
    /\ Len(table) = 1
    /\ \E i \in 1..Len(logLines) : logLines[i].Domain = <<"a", ".", "b", "c">>

\* C10: selecting row r of the table fills the detail pane with the fields of
\* the record whose text row r displays, also when the table is filtered.
C10_SelectionShowsDisplayedRecord ==
    [][\A row \in 0..Len(table) :
         (TableSelected(row) /\ pc' = "ui")
         => /\ selectedLine'[1].Line = table[row]
            /\ detailPane' = DetailItems(selectedLine'[1])]_vars

\* the text the handlers give the filter indicator for the filter f
NameOfFilter(f) ==
    IF f.kind = "text" THEN <<"T", "e", "x", "t", " ", "s", "e", "a", "r", "c", "h", ":", " ">> \o f.s
    ELSE CASE f.field = "LineType"  -> <<"L", "i", "n", "e", "T", "y", "p", "e", ":", " ">> \o ReplaceAll(f.value, <<"[", "]">>, <<"]">>)
           [] f.field = "Result"    -> <<"R", "e", "s", "u", "l", "t", ":", " ">> \o f.value
           [] f.field = "Domain"    -> <<"D", "o", "m", "a", "i", "n", ":", " ">> \o f.value
           [] f.field = "Requester" -> <<"R", "e", "q", "u", "e", "s", "t", "e", "r", ":", " ">> \o f.value
           [] f.field = "Upstream"  -> <<"U", "p", "s", "t", "r", "e", "a", "m", ":", " ">> \o f.value

\* the filters the operator can ask for: a search for a typed text, or a field
\* of a record of some log line
NamedFilters ==
    {[kind |-> "text", s |-> s] : s \in SearchKeys \cup {<<>>}}
    \cup {[kind |-> "field", field |-> field, value |-> unmarshalled[l].ll[field]] :
            field \in FilterFields,
            l \in {x \in UILines : unmarshalled[x].panic = "none"}}

\* C11: the filter indicator tells the filter state: it reads "None" when the
\* table displays the whole record sequence with no filter applied, and
\* otherwise it names the filter whose result the table displays.
C11_IndicatorTellsFilterState ==
    pc = "ui" =>
      IF filterIndicator = None
      THEN IsTableOf(table, logLines)
      ELSE \E f \in NamedFilters :
             LET passes(ll) == Apply(f, ll) IN
             /\ NameOfFilter(f) = filterIndicator
             /\ IsTableOf(table, SelectSeq(logLines, passes))

\* C12: whenever the operator can select a row of the table (row 0, the initial
\* selection, included, and also with an empty log file), the index rows-row of
\* the selection handler is a valid index of the record sequence; a selection
\* never reads the record sequence out of bounds.
C12_SelectionIndexInRange ==
    /\ ~(pc = "crashed" /\ panic.in = "SetSelectedFunc")
    /\ (pc = "ui" /\ focus = "table" /\ selectable) =>
         \A row \in 0..Len(table) : 0 <= rows - row /\ rows - row < Len(logLines)

====
